---- MODULE Spec2Model ----
(***************************************************************************)
(* A model of sphinxcontrib/versioning/lib.py: the Config object (fields   *)
(* that may be set once, plus the auxiliary _program_state store) and the  *)
(* TempDir / TempEnv objects (a temporary directory holding a virtualenv   *)
(* into which packages are installed through pip subprocesses).            *)
(*                                                                         *)
(* Python values are modelled by their repr as strings ("True", "'master'",*)
(* "None", "()", "0"); paths are sequences of path components.             *)
(***************************************************************************)
EXTENDS Integers, Sequences, FiniteSets, TLC

VARIABLES
    attr,            \* Config: public entries of the instance __dict__, name -> value
    already_set,     \* Config._already_set
    program_state,   \* Config._program_state, key -> value
    last,            \* the last call on the Config: what it returned or raised, and
                     \* the keys an update assigned and the keys it skipped
    platform,        \* sys.platform of the running process
    life,            \* the TempEnv object: "none", "live", "failed", "collected", "exited"
    finalizer,       \* how the removal of the directory is registered: "gc" or "atexit"
    scope,           \* whether the program is inside a `with TempEnv()` block: "in", "out"
    env,             \* TempEnv attributes: name, venv_path, context
    disk,            \* the paths that exist on disk
    readonly,        \* entries whose unlink fails until they are made writable
    locked,          \* entries whose unlink fails even when made writable
    editable_installs, \* TempEnv.editable_installs, pkg_name -> script_name
    handle,          \* the handle yielded by pip_install_context
    call             \* the last call on the TempEnv and what it returned or raised

cfgVars == <<attr, already_set, program_state, last>>
envVars == <<platform, life, finalizer, scope, env, disk, readonly, locked,
             editable_installs, handle, call>>
vars == <<cfgVars, envVars>>

----------------------------------------------------------------------------
(* Bounds of the model.                                                    *)

\* Longest params dict handed to Config.update.
MaxParams == 2

----------------------------------------------------------------------------
(* Config.__init__ : the schema fields and their defaults.                 *)

BoolFields == {"banner_greatest_tag", "banner_recent_tag", "greatest_tag", "invert",
               "no_colors", "no_local_conf", "recent_tag", "show_banner"}
StrFields == {"banner_main_ref", "chdir", "git_root", "local_conf", "priority",
              "push_remote", "root_ref"}
TupleFields == {"grm_exclude", "overflow", "sort", "whitelist_branches", "whitelist_tags"}
IntFields == {"verbose"}

SchemaFields == BoolFields \cup StrFields \cup TupleFields \cup IntFields

DefaultValue(n) ==
    IF n \in BoolFields THEN "False"
    ELSE IF n \in {"banner_main_ref", "root_ref"} THEN "'master'"
    ELSE IF n = "push_remote" THEN "'origin'"
    ELSE IF n \in StrFields THEN "None"
    ELSE IF n \in TupleFields THEN "()"
    ELSE "0"

\* The two private instance attributes, and the attributes the class provides
\* (methods; "__init__" stands for the dunder names dir() also lists).
PrivateAttrs == {"_already_set", "_program_state"}
ClassAttrs == {"from_context", "pop", "update", "__init__"}

\* n.startswith('_') over the names of the model.
StartsWithUnderscore(n) == n \in PrivateAttrs \cup {"__init__"}

\* dir(self) for an instance whose public __dict__ entries are a.
Dir(a) == DOMAIN a \cup PrivateAttrs \cup ClassAttrs

\* hasattr(self, key)
HasAttr(a, key) == key \in Dir(a)

\* callable(getattr(self, n)): a method, unless an instance attribute shadows it.
Callable(a, n) == n \in ClassAttrs /\ n \notin DOMAIN a

\* Config.__iter__ : the (name, value) pairs it yields.
Iter(a) == {<<n, a[n]>> : n \in {m \in Dir(a) : ~StartsWithUnderscore(m) /\ ~Callable(a, m)}}

\* A plausible slip: the names filtered by callable() alone.
ValidWithPrivate(a) == {m \in Dir(a) : ~Callable(a, m)}

\* valid = {i[0] for i in self}
Valid(a) == {i[1] : i \in Iter(a)}

\* setattr(self, key, value)
SetAttr(a, key, value) == [n \in DOMAIN a \cup {key} |-> IF n = key THEN value ELSE a[n]]

\* Config.__contains__
Contains(ps, item) == item \in DOMAIN ps

----------------------------------------------------------------------------
(* Config.update : the loop over params.items(), from item i on, with the  *)
(* instance attributes a and the set s of already-set names.  The result   *)
(* records the attributes and the set when the loop ended, what the call   *)
(* raised ("None" when it returned) and the index of the raising item.     *)

\* The keys of a params dict given as the sequence of its items.
KeysOf(params) == {params[i][1] : i \in DOMAIN params}

NoAttribute == "AttributeError: has no attribute"
NoAssignment == "AttributeError: does not support item assignment"
NoReassignment == "AttributeError: does not support item re-assignment"
AttributeErrors == {NoAttribute, NoAssignment, NoReassignment}

\* A plausible slip: self._already_set.add(key) left out.
RECURSIVE UpdateLoopNoMark(_, _, _, _, _, _, _)
UpdateLoopNoMark(params, i, a, s, valid, ignore_set, overwrite) ==
    IF i > Len(params)
    THEN [attr |-> a, set |-> s, result |-> "None", at |-> 0]
    ELSE LET key == params[i][1]
             value == params[i][2]
         IN  IF ~HasAttr(a, key)
             THEN [attr |-> a, set |-> s, result |-> NoAttribute, at |-> i]
             ELSE IF key \notin valid
             THEN [attr |-> a, set |-> s, result |-> NoAssignment, at |-> i]
             ELSE IF key \in s /\ ignore_set
             THEN UpdateLoopNoMark(params, i + 1, a, s, valid, ignore_set, overwrite)
             ELSE IF key \in s /\ ~overwrite
             THEN [attr |-> a, set |-> s, result |-> NoReassignment, at |-> i]
             ELSE UpdateLoopNoMark(params, i + 1, SetAttr(a, key, value), s,
                                   valid, ignore_set, overwrite)

\* A plausible slip: the skip leaves the loop (break, or return) instead of
\* going on to the next item.
RECURSIVE UpdateLoopSkipStops(_, _, _, _, _, _, _)
UpdateLoopSkipStops(params, i, a, s, valid, ignore_set, overwrite) ==
    IF i > Len(params)
    THEN [attr |-> a, set |-> s, result |-> "None", at |-> 0]
    ELSE LET key == params[i][1]
             value == params[i][2]
         IN  IF ~HasAttr(a, key)
             THEN [attr |-> a, set |-> s, result |-> NoAttribute, at |-> i]
             ELSE IF key \notin valid
             THEN [attr |-> a, set |-> s, result |-> NoAssignment, at |-> i]
             ELSE IF key \in s /\ ignore_set
             THEN [attr |-> a, set |-> s, result |-> "None", at |-> 0]
             ELSE IF key \in s /\ ~overwrite
             THEN [attr |-> a, set |-> s, result |-> NoReassignment, at |-> i]
             ELSE UpdateLoopSkipStops(params, i + 1, SetAttr(a, key, value), s \cup {key},
                                      valid, ignore_set, overwrite)

RECURSIVE UpdateLoop(_, _, _, _, _, _, _)
UpdateLoop(params, i, a, s, valid, ignore_set, overwrite) ==
    IF i > Len(params)
    THEN [attr |-> a, set |-> s, result |-> "None", at |-> 0]
    ELSE LET key == params[i][1]
             value == params[i][2]
         IN  IF ~HasAttr(a, key)
             THEN [attr |-> a, set |-> s, result |-> NoAttribute, at |-> i]
             ELSE IF key \notin valid
             THEN [attr |-> a, set |-> s, result |-> NoAssignment, at |-> i]
             ELSE IF key \in s /\ ignore_set
             THEN UpdateLoop(params, i + 1, a, s, valid, ignore_set, overwrite)
             ELSE IF key \in s /\ ~overwrite
             THEN [attr |-> a, set |-> s, result |-> NoReassignment, at |-> i]
             ELSE UpdateLoop(params, i + 1, SetAttr(a, key, value), s \cup {key},
                             valid, ignore_set, overwrite)

\* A plausible slip: all or nothing, the object put back as it was when a key is
\* refused.
UpdateOutcomeAtomic(a, s, params, ignore_set, overwrite) ==
    LET r == UpdateLoop(params, 1, a, s, Valid(a), ignore_set, overwrite)
    IN  IF r.result = "None" THEN r ELSE [r EXCEPT !.attr = a, !.set = s]

\* A plausible slip: the set of names rebuilt from the keys of this call
\* (self._already_set = set(...)) instead of added to.
UpdateOutcomeRebuildsSet(a, s, params, ignore_set, overwrite) ==
    LET r == UpdateLoop(params, 1, a, s, Valid(a), ignore_set, overwrite)
    IN  [r EXCEPT !.set = r.set \cap KeysOf(params)]

\* The outcome of config.update(params, ignore_set, overwrite) on (a, s).
UpdateOutcome(a, s, params, ignore_set, overwrite) ==
    UpdateLoop(params, 1, a, s, Valid(a), ignore_set, overwrite)

----------------------------------------------------------------------------
(* The calls the model makes on a Config.                                  *)

\* Keys of params: two schema fields (a flag and a string), a name the object
\* does not have, a private attribute, and a method.  A schema field is given
\* one of two values; 'master' is the default of root_ref.
FieldKeys == {"invert", "root_ref"}
OtherKeys == {"unknown", "_program_state", "update"}
ParamKeys == FieldKeys \cup OtherKeys
ParamValues == {"True", "'master'"}
ParamItems == (FieldKeys \X ParamValues) \cup (OtherKeys \X {"True"})

\* A params dict is the sequence of its items in iteration order (its keys differ).
RECURSIVE ParamsOfLen(_)
ParamsOfLen(n) ==
    IF n = 0 THEN {<<>>}
    ELSE {Append(p, item) : p \in ParamsOfLen(n - 1), item \in ParamItems}

ParamDicts == {p \in UNION {ParamsOfLen(n) : n \in 0..MaxParams} :
                 Cardinality(KeysOf(p)) = Len(p)}

\* Keys and values of the auxiliary store; "invert" is also a schema field.
AuxKeys == {"key", "invert"}
AuxValues == {"value", "other"}
PopDefault == "nope"

\* What the last call was: op, the key it was about (for update, the key it
\* raised on), its result, and for update the keys that went through setattr
\* (line 130) and the keys that were logged as skipped (line 125).
LastCall(op, key, result, assigned, skipped) ==
    [op |-> op, key |-> key, result |-> result, assigned |-> assigned, skipped |-> skipped]

\* The items of params the loop went through before it returned or raised at
\* item `at`, and those among them it skipped: the keys of a dict differ, so an
\* item is skipped exactly when ignore_set is given and its key was set before
\* the call.
Processed(params, at) == IF at = 0 THEN 1..Len(params) ELSE 1..(at - 1)
Skipped(params, at, s, ignore_set) ==
    {params[i][1] : i \in {j \in Processed(params, at) : ignore_set /\ params[j][1] \in s}}
Assigned(params, at, s, ignore_set) ==
    {params[i][1] : i \in Processed(params, at)} \ Skipped(params, at, s, ignore_set)

\* config.update(params, ignore_set, overwrite)
Update(params, ignore_set, overwrite) ==
    \E r \in {UpdateOutcome(attr, already_set, params, ignore_set, overwrite)} :
        /\ attr' = r.attr
        /\ already_set' = r.set
        /\ last' = LastCall("update", IF r.at = 0 THEN "" ELSE params[r.at][1], r.result,
                            Assigned(params, r.at, already_set, ignore_set),
                            Skipped(params, r.at, already_set, ignore_set))
        /\ UNCHANGED <<program_state, envVars>>

\* A plausible slip: __setitem__ written with setattr(self, key, value).
SetItemAsAttribute(key, value) ==
    /\ attr' = SetAttr(attr, key, value)
    /\ last' = LastCall("setitem", key, "None", {}, {})
    /\ UNCHANGED <<program_state, already_set, envVars>>

\* self._program_state[key] = value
DictSet(ps, key, value) == [k \in DOMAIN ps \cup {key} |-> IF k = key THEN value ELSE ps[k]]

\* config[key] = value
SetItem(key, value) ==
    /\ program_state' = DictSet(program_state, key, value)
    /\ last' = LastCall("setitem", key, "None", {}, {})
    /\ UNCHANGED <<attr, already_set, envVars>>

\* A plausible slip: the value looked up and not removed.
DictPopKeeps(ps, args) ==
    IF Len(args) = 0 \/ Len(args) > 2
    THEN [result |-> "TypeError", dict |-> ps]
    ELSE IF args[1] \in DOMAIN ps
    THEN [result |-> ps[args[1]], dict |-> ps]
    ELSE IF Len(args) = 2
    THEN [result |-> args[2], dict |-> ps]
    ELSE [result |-> "KeyError", dict |-> ps]

\* dict.pop(*args) on ps: the value returned or the error raised, and the dict left.
DictPop(ps, args) ==
    IF Len(args) = 0 \/ Len(args) > 2
    THEN [result |-> "TypeError", dict |-> ps]
    ELSE IF args[1] \in DOMAIN ps
    THEN [result |-> ps[args[1]], dict |-> [k \in DOMAIN ps \ {args[1]} |-> ps[k]]]
    ELSE IF Len(args) = 2
    THEN [result |-> args[2], dict |-> ps]
    ELSE [result |-> "KeyError", dict |-> ps]

\* config.pop(*args)
Pop(args) ==
    \E r \in {DictPop(program_state, args)} :
        /\ program_state' = r.dict
        /\ last' = LastCall("pop", IF Len(args) = 0 THEN "" ELSE args[1], r.result, {}, {})
        /\ UNCHANGED <<attr, already_set, envVars>>

PopArgs == {<<>>} \cup {<<k>> : k \in AuxKeys} \cup {<<k, PopDefault>> : k \in AuxKeys}

ConfigNext ==
    \/ \E params \in ParamDicts, ignore_set \in BOOLEAN, overwrite \in BOOLEAN :
          Update(params, ignore_set, overwrite)
    \/ \E key \in AuxKeys, value \in AuxValues : SetItem(key, value)
    \/ \E args \in PopArgs : Pop(args)

----------------------------------------------------------------------------
(* Paths: sequences of path components.                                    *)

IsPrefix(p, q) == Len(p) <= Len(q) /\ SubSeq(q, 1, Len(p)) = p

\* os.path.basename, os.path.dirname, os.path.join
Basename(p) == IF p = <<>> THEN "" ELSE p[Len(p)]
Dirname(p) == IF p = <<>> THEN <<>> ELSE SubSeq(p, 1, Len(p) - 1)
Join(p, q) == p \o q

\* tempfile.mkdtemp('sphinxcontrib_versioning')
TempName == <<"tmp", "sphinxcontrib_versioning">>

Platforms == {"linux", "win32"}

\* sys.executable of the invoking process, and the prefixes that process may
\* run from: the system's, or an environment of its own.  mkdtemp makes a
\* directory that did not exist, so none of them is under TempName.
Executable == <<"usr", "bin", "python">>
CurrentPrefixes == {<<"usr">>, <<"home", "venv">>}

\* A plausible slip: os.path.basename left out, the executable joined as it is
\* (os.path.join drops what comes before an absolute path).
BuildContextFullExecutable(env_dir, plat) ==
    LET binname == IF plat = "win32" THEN "Scripts" ELSE "bin"
        bin_path == Join(env_dir, <<binname>>)
    IN  [env_dir |-> env_dir,
         env_name |-> Basename(env_dir),
         bin_path |-> bin_path,
         env_exe |-> Executable]

\* EnvBuilder.build_context: the paths derived from env_dir on this platform.
BuildContext(env_dir, plat) ==
    LET exename == IF plat = "win32" THEN "python.exe" ELSE "python"
        binname == IF plat = "win32" THEN "Scripts" ELSE "bin"
        bin_path == Join(env_dir, <<binname>>)
    IN  [env_dir |-> env_dir,
         env_name |-> Basename(env_dir),
         bin_path |-> bin_path,
         env_exe |-> Join(bin_path, <<exename>>)]

\* libpath of build_context: the site-packages directory of the environment.
LibPath(env_dir, plat) ==
    IF plat = "win32" THEN Join(env_dir, <<"Lib", "site-packages">>)
    ELSE Join(env_dir, <<"lib", "python3", "site-packages">>)

NoEnv == [name |-> <<>>, venv_path |-> <<>>, context |-> BuildContext(<<>>, "linux")]

----------------------------------------------------------------------------
(* Packages.  A package installed in an environment is a metadata entry    *)
(* <name, version, kind> in its site-packages directory: kind "dist-info"  *)
(* for a release, "egg-link" for an editable install.                      *)

PkgNames == {"pip", "requests", "mypkg"}
Versions == {"1.0", "dev"}
Kinds == {"dist-info", "egg-link"}

\* What virtualenv seeds a new environment with.
SeedReqs == {<<"pip", "1.0">>}

MetaEntry(name, version, kind) ==
    Join(LibPath(env.venv_path, platform), <<name, version, kind>>)
MetaEntries(name) == {MetaEntry(name, v, k) : v \in Versions, k \in Kinds}

\* Whether the environment on disk d has the executable, and has package name.
ExeThere(d) == env.context.env_exe \in d
InstalledIn(d, name) == MetaEntries(name) \cap d # {}

\* The local projects: the setup.py files that exist, and the name each reports.
ProjectFiles == {<<"work", "mypkg", "setup.py">>, <<"setup.py">>}
SetupName(script_name) == "mypkg"

\* The paths handed to pip_install_editable: a project directory, its setup.py,
\* a setup.py relative to the working directory, and a directory without one.
EditablePaths == {<<"work", "mypkg">>, <<"work", "mypkg", "setup.py">>, <<"setup.py">>,
                  <<"work", "empty">>, <<"work", "empty", "setup.py">>}

----------------------------------------------------------------------------
(* shutil.rmtree(path, ...): "ignore" is ignore_errors=True (the finalizer), *)
(* "handler" is cleanup's onerror, which makes the failing entry writable  *)
(* and unlinks it, and whose own failure propagates.  The entries are      *)
(* visited in no fixed order: a propagating failure is modelled at its two *)
(* extremes, nothing deleted yet and everything deletable deleted.         *)

RmtreeOutcomes(d, ro, lk, path, mode) ==
    LET tree == {p \in d : IsPrefix(path, p)}
        Closure(S) == {p \in tree : \E q \in S : IsPrefix(p, q)}
    IN  IF path \notin d
        THEN {[disk |-> d,
               raised |-> IF mode = "ignore" THEN "None" ELSE "FileNotFoundError"]}
        ELSE IF mode = "ignore"
        THEN {[disk |-> (d \ tree) \cup Closure(tree \cap (ro \cup lk)), raised |-> "None"]}
        ELSE IF tree \cap lk = {}
        THEN {[disk |-> d \ tree, raised |-> "None"]}
        ELSE {[disk |-> (d \ tree) \cup Closure((tree \cap lk) \cup kept),
               raised |-> "PermissionError"] : kept \in {{}, tree \ lk}}

\* A plausible slip: errors ignored, and no look at what is left.
CleanupIgnoresErrors(d, ro, lk) ==
    {[disk |-> r.disk, raised |-> "None"] :
        r \in RmtreeOutcomes(d, ro, lk, env.name, "ignore")}

\* A plausible slip: the failure of the delete caught and dropped, and no look
\* at what is left.
CleanupSwallows(d, ro, lk) ==
    {[disk |-> r.disk, raised |-> "None"] :
        r \in RmtreeOutcomes(d, ro, lk, env.name, "handler")}

\* TempDir.cleanup: what it leaves on disk and what it raises.
CleanupOutcomes(d, ro, lk) ==
    {[disk |-> r.disk,
      raised |-> IF r.raised # "None" THEN r.raised
                 ELSE IF env.name \in r.disk THEN "IOError" ELSE "None"] :
        r \in RmtreeOutcomes(d, ro, lk, env.name, "handler")}

----------------------------------------------------------------------------
(* The pip subprocesses, run through the environment's own executable.     *)

\* `pip show pkg_name`: exit code and captured output.  probe "normal" is what
\* pip answers; "failure" is a failure that leaves output behind.
PipShow(d, pkg_name, probe) ==
    IF probe = "failure" THEN [rc |-> 1, out |-> "text"]
    ELSE IF InstalledIn(d, pkg_name) THEN [rc |-> 0, out |-> "text"]
    ELSE [rc |-> 1, out |-> ""]

\* A plausible slip: every failure of the probe taken for "not installed".
IsInstalledSwallows(rc, out) == IF rc = 0 /\ out # "" THEN "True" ELSE "False"

\* TempEnv.is_installed on the probe's exit code and output.
IsInstalledResult(rc, out) ==
    IF rc # 0 /\ out # "" THEN "CalledProcessError"
    ELSE IF out # "" THEN "True" ELSE "False"

\* TempEnv.is_installed: "True", "False" or the exception that propagates.
IsInstalledOutcome(d, pkg_name, probe) ==
    IF ~ExeThere(d) THEN "FileNotFoundError"
    ELSE LET sh == PipShow(d, pkg_name, probe) IN IsInstalledResult(sh.rc, sh.out)

\* A plausible slip: pip_install called without the requirements.
InstallNothing(d, reqs) == d

\* What `pip install <reqs>` leaves installed: a requirement already satisfied
\* stays, another version or an editable install of the name is replaced.
InstallReqs(d, reqs) ==
    LET satisfied(r) == MetaEntry(r[1], r[2], "dist-info") \in d
                        \/ MetaEntry(r[1], r[2], "egg-link") \in d
        replaced == UNION {MetaEntries(r[1]) : r \in {q \in reqs : ~satisfied(q)}}
    IN  (d \ replaced) \cup {MetaEntry(r[1], r[2], "dist-info") : r \in {q \in reqs : ~satisfied(q)}}

\* TempEnv.pip_install(*requirements); ok is whether pip succeeds.
PipInstallOutcome(d, reqs, ok) ==
    IF ~ExeThere(d) THEN [disk |-> d, result |-> "FileNotFoundError"]
    ELSE IF reqs = {} \/ ~ok THEN [disk |-> d, result |-> "CalledProcessError"]
    ELSE [disk |-> InstallReqs(d, reqs), result |-> "text"]

\* del self.editable_installs[pkg_name], when it is there
Without(ei, pkg_name) == [n \in DOMAIN ei \ {pkg_name} |-> ei[n]]

\* A plausible slip: the name dropped from the mapping, the package left installed.
UninstallKeepsPackage(d, ei, pkg_name) ==
    IF ~ExeThere(d) THEN [disk |-> d, ei |-> ei, result |-> "FileNotFoundError"]
    ELSE [disk |-> d, ei |-> Without(ei, pkg_name), result |-> "None"]

\* A plausible slip: del self.editable_installs[pkg_name] without the membership test.
UninstallNoGuard(d, ei, pkg_name) ==
    IF ~ExeThere(d) THEN [disk |-> d, ei |-> ei, result |-> "FileNotFoundError"]
    ELSE IF pkg_name \notin DOMAIN ei
    THEN [disk |-> d \ MetaEntries(pkg_name), ei |-> ei, result |-> "KeyError"]
    ELSE [disk |-> d \ MetaEntries(pkg_name), ei |-> Without(ei, pkg_name), result |-> "None"]

\* TempEnv.uninstall_editable
UninstallOutcome(d, ei, pkg_name) ==
    IF ~ExeThere(d) THEN [disk |-> d, ei |-> ei, result |-> "FileNotFoundError"]
    ELSE [disk |-> d \ MetaEntries(pkg_name), ei |-> Without(ei, pkg_name), result |-> "None"]

\* A plausible slip: the name recorded before the install is run, so that a
\* failed install leaves it in editable_installs.
EditableRecordsFirst(d, ei, path, script_name, pkg_name, fault, cmds) ==
    LET recorded == [n \in DOMAIN ei \cup {pkg_name} |->
                        IF n = pkg_name THEN script_name ELSE ei[n]]
    IN  IF ~ExeThere(d)
        THEN [disk |-> d, ei |-> recorded, result |-> "FileNotFoundError", cmds |-> cmds]
        ELSE IF path = <<>> \/ fault = "install"
        THEN [disk |-> d, ei |-> recorded, result |-> "CalledProcessError",
              cmds |-> Append(cmds, "pip install -e")]
        ELSE [disk |-> (d \ MetaEntries(pkg_name)) \cup {MetaEntry(pkg_name, "dev", "egg-link")},
              ei |-> recorded,
              result |-> pkg_name,
              cmds |-> Append(cmds, "pip install -e")]

\* The last two steps of pip_install_editable: `pip install -e path`, then the
\* record in editable_installs.
EditableInstallStep(d, ei, path, script_name, pkg_name, fault, cmds) ==
    IF ~ExeThere(d)
    THEN [disk |-> d, ei |-> ei, result |-> "FileNotFoundError", cmds |-> cmds]
    ELSE IF path = <<>> \/ fault = "install"
    THEN [disk |-> d, ei |-> ei, result |-> "CalledProcessError",
          cmds |-> Append(cmds, "pip install -e")]
    ELSE [disk |-> (d \ MetaEntries(pkg_name)) \cup {MetaEntry(pkg_name, "dev", "egg-link")},
          ei |-> [n \in DOMAIN ei \cup {pkg_name} |-> IF n = pkg_name THEN script_name ELSE ei[n]],
          result |-> pkg_name,
          cmds |-> Append(cmds, "pip install -e")]

\* script_name of pip_install_editable(path)
ScriptName(path) ==
    IF Basename(path) # "setup.py" THEN Join(path, <<"setup.py">>) ELSE path

\* The directory pip_install_editable(path) hands to `pip install -e`.
InstallDir(path) == IF Basename(path) # "setup.py" THEN path ELSE Dirname(path)

\* pip_install_editable(path) from line 276 on, the script having been found.
\* fault names the subprocess that fails, if any: "name" (setup.py --name, which
\* also fails on a script that is not there), "probe" (pip show), "install"
\* (pip install -e).
EditableWithScript(d, ei, path0, fault) ==
    LET script_name == ScriptName(path0)
        path == InstallDir(path0)
        pkg_name == SetupName(script_name)
        probed == IsInstalledOutcome(d, pkg_name, IF fault = "probe" THEN "failure" ELSE "normal")
        un == UninstallOutcome(d, ei, pkg_name)
    IN  IF fault = "name" \/ script_name \notin ProjectFiles
        THEN [disk |-> d, ei |-> ei, result |-> "CalledProcessError",
              cmds |-> <<"setup.py --name">>]
        ELSE IF probed \notin {"True", "False"}
        THEN [disk |-> d, ei |-> ei, result |-> probed,
              cmds |-> IF ExeThere(d) THEN <<"setup.py --name", "pip show">>
                       ELSE <<"setup.py --name">>]
        ELSE IF probed = "True"
        THEN EditableInstallStep(un.disk, un.ei, path, script_name, pkg_name, fault,
                                 <<"setup.py --name", "pip show", "pip uninstall">>)
        ELSE EditableInstallStep(d, ei, path, script_name, pkg_name, fault,
                                 <<"setup.py --name", "pip show">>)

\* A plausible slip: the os.path.exists(script_name) check left out.
EditableNoExistsCheck(d, ei, path0, fault) == EditableWithScript(d, ei, path0, fault)

\* TempEnv.pip_install_editable(path): result is the returned package name,
\* "None", or the exception raised; cmds are the subprocesses that ran.
EditableOutcome(d, ei, path0, fault) ==
    IF ScriptName(path0) \notin ProjectFiles
    THEN [disk |-> d, ei |-> ei, result |-> "None", cmds |-> <<>>]
    ELSE EditableWithScript(d, ei, path0, fault)

\* The ambient environment: the packages of the invoking process's environment.
AmbientUniverse ==
    {[name |-> "pip", version |-> "1.0", editable |-> FALSE],
     [name |-> "requests", version |-> "1.0", editable |-> FALSE],
     [name |-> "mypkg", version |-> "1.0", editable |-> FALSE],
     [name |-> "mypkg", version |-> "dev", editable |-> TRUE]}
Ambients == {A \in SUBSET AmbientUniverse :
                \A p \in A, q \in A : p.name = q.name => p = q}

\* `pip freeze --local --exclude-editable`: pip leaves itself out of the listing.
FreezeSkip == {"pip"}
\* TempEnv.get_local_requirements: the name==version lines.
GetLocalRequirements(ambient) ==
    {<<p.name, p.version>> : p \in {q \in ambient : ~q.editable /\ q.name \notin FreezeSkip}}

----------------------------------------------------------------------------
(* The calls on a TempEnv.                                                 *)

Called(op, pkg, reqs, result, cmds, cleanups) ==
    [op |-> op, pkg |-> pkg, reqs |-> reqs, result |-> result,
     cmds |-> cmds, cleanups |-> cleanups]

NoHandle == [open |-> FALSE, path |-> <<>>, script_name |-> <<>>, pkg_name |-> "None",
             is_installed |-> FALSE]

\* The state before any call: a new Config, and no TempEnv yet.
Init ==
    /\ attr = [n \in SchemaFields |-> DefaultValue(n)]
    /\ already_set = {}
    /\ program_state = << >>
    /\ last = LastCall("init", "", "None", {}, {})
    /\ platform = "unknown"
    /\ life = "none"
    /\ finalizer = "none"
    /\ scope = "out"
    /\ env = NoEnv
    /\ disk = {}
    /\ readonly = {}
    /\ locked = {}
    /\ editable_installs = << >>
    /\ handle = NoHandle
    /\ call = Called("init", "", {}, "None", <<>>, 0)

\* What a disk change leaves of the entries that resist deletion.
Resist(d) == /\ readonly' = readonly \cap d
             /\ locked' = locked \cap d

\* A plausible slip: the removal registered at the end of the constructor, after
\* the environment was created, so that a failed creation registers nothing.
ConstructRegistersLast(defer_atexit, created, plat) ==
    /\ life = "none"
    /\ platform' = plat
    /\ finalizer' = IF ~created THEN "none" ELSE IF defer_atexit THEN "atexit" ELSE "gc"
    /\ LET venv_path == Join(TempName, <<"venv">>)
           context == BuildContext(venv_path, plat)
       IN  IF created
           THEN /\ life' = "live"
                /\ env' = [name |-> TempName, venv_path |-> venv_path, context |-> context]
                /\ disk' = {TempName, venv_path, context.env_exe}
                             \cup {Join(LibPath(venv_path, plat), <<r[1], r[2], "dist-info">>) :
                                      r \in SeedReqs}
                /\ call' = Called("TempEnv", "", {}, "None", <<"virtualenv">>, 0)
           ELSE /\ life' = "failed"
                /\ env' = [name |-> TempName, venv_path |-> venv_path, context |-> NoEnv.context]
                /\ disk' = {TempName}
                /\ call' = Called("TempEnv", "", {}, "CalledProcessError",
                                  <<"virtualenv">>, 0)
    /\ UNCHANGED <<cfgVars, scope, readonly, locked, editable_installs, handle>>

\* TempEnv(defer_atexit): TempDir.__init__ makes the directory and registers its
\* removal, then EnvBuilder.create runs virtualenv; created is whether it succeeds.
Construct(defer_atexit, created, plat) ==
    /\ life = "none"
    /\ platform' = plat
    /\ finalizer' = IF defer_atexit THEN "atexit" ELSE "gc"
    /\ LET venv_path == Join(TempName, <<"venv">>)
           context == BuildContext(venv_path, plat)
       IN  IF created
           THEN /\ life' = "live"
                /\ env' = [name |-> TempName, venv_path |-> venv_path, context |-> context]
                /\ disk' = {TempName, venv_path, context.env_exe}
                             \cup {Join(LibPath(venv_path, plat), <<r[1], r[2], "dist-info">>) :
                                      r \in SeedReqs}
                /\ call' = Called("TempEnv", "", {}, "None", <<"virtualenv">>, 0)
           ELSE /\ life' = "failed"
                /\ env' = [name |-> TempName, venv_path |-> venv_path, context |-> NoEnv.context]
                /\ disk' = {TempName}
                /\ call' = Called("TempEnv", "", {}, "CalledProcessError",
                                  <<"virtualenv">>, 0)
    /\ UNCHANGED <<cfgVars, scope, readonly, locked, editable_installs, handle>>

\* TempEnv.__enter__
Enter ==
    /\ life = "live" /\ scope = "out"
    /\ scope' = "in"
    /\ call' = Called("__enter__", "", {}, "self", <<>>, 0)
    /\ UNCHANGED <<cfgVars, platform, life, finalizer, env, disk, readonly, locked,
                   editable_installs, handle>>

\* TempDir.cleanup()
Cleanup ==
    /\ life = "live"
    /\ \E r \in CleanupOutcomes(disk, readonly, locked) :
          /\ disk' = r.disk
          /\ Resist(r.disk)
          /\ call' = Called("cleanup", "", {}, r.raised, <<>>, 1)
    /\ UNCHANGED <<cfgVars, platform, life, finalizer, scope, env, editable_installs, handle>>

\* TempDir.__exit__: the with block is left, normally or because it raised.
Exit(raised) ==
    /\ life = "live" /\ scope = "in" /\ ~handle.open
    /\ scope' = "out"
    /\ \E r \in CleanupOutcomes(disk, readonly, locked) :
          /\ disk' = r.disk
          /\ Resist(r.disk)
          /\ call' = Called("__exit__", "", {},
                            IF r.raised # "None" THEN r.raised
                            ELSE IF raised THEN "BlockError" ELSE "None",
                            <<>>, 1)
    /\ UNCHANGED <<cfgVars, platform, life, finalizer, env, editable_installs, handle>>

\* The file a script run in the environment leaves under venv_path.
ScratchFile == Join(env.venv_path, <<"data">>)

\* TempEnv.run_python(script): the script leaves nothing, or a file that is
\* read-only, or one that cannot be deleted.
RunPython(effect) ==
    /\ life = "live"
    /\ IF ~ExeThere(disk)
       THEN /\ call' = Called("run_python", "", {}, "FileNotFoundError", <<>>, 0)
            /\ UNCHANGED <<disk, readonly, locked>>
       ELSE /\ call' = Called("run_python", "", {}, "text", <<"script">>, 0)
            /\ disk' = IF effect = "none" THEN disk ELSE disk \cup {ScratchFile}
            /\ readonly' = IF effect = "readonly" THEN readonly \cup {ScratchFile}
                           ELSE IF effect = "locked" THEN readonly \ {ScratchFile}
                           ELSE readonly
            /\ locked' = IF effect = "locked" THEN locked \cup {ScratchFile}
                         ELSE IF effect = "readonly" THEN locked \ {ScratchFile}
                         ELSE locked
    /\ UNCHANGED <<cfgVars, platform, life, finalizer, scope, env, editable_installs, handle>>

\* TempEnv.pip_install(*requirements)
PipInstall(reqs, ok) ==
    /\ life = "live"
    /\ \E r \in {PipInstallOutcome(disk, reqs, ok)} :
          /\ disk' = r.disk
          /\ call' = Called("pip_install", "", reqs, r.result,
                            IF ExeThere(disk) THEN <<"pip install">> ELSE <<>>, 0)
    /\ UNCHANGED <<cfgVars, platform, life, finalizer, scope, env, readonly, locked,
                   editable_installs, handle>>

\* TempEnv.is_installed(pkg_name)
IsInstalled(pkg_name, probe) ==
    /\ life = "live"
    /\ call' = Called("is_installed", pkg_name, {},
                      IsInstalledOutcome(disk, pkg_name, probe),
                      IF ExeThere(disk) THEN <<"pip show">> ELSE <<>>, 0)
    /\ UNCHANGED <<cfgVars, platform, life, finalizer, scope, env, disk, readonly, locked,
                   editable_installs, handle>>

\* TempEnv.pip_install_editable(path)
PipInstallEditable(path, fault) ==
    /\ life = "live"
    /\ \E r \in {EditableOutcome(disk, editable_installs, path, fault)} :
          /\ disk' = r.disk
          /\ editable_installs' = r.ei
          /\ call' = Called("pip_install_editable", "", {}, r.result, r.cmds, 0)
    /\ UNCHANGED <<cfgVars, platform, life, finalizer, scope, env, readonly, locked, handle>>

\* TempEnv.uninstall_editable(pkg_name)
UninstallEditable(pkg_name) ==
    /\ life = "live"
    /\ \E r \in {UninstallOutcome(disk, editable_installs, pkg_name)} :
          /\ disk' = r.disk
          /\ editable_installs' = r.ei
          /\ call' = Called("uninstall_editable", pkg_name, {}, r.result,
                            IF ExeThere(disk) THEN <<"pip uninstall">> ELSE <<>>, 0)
    /\ UNCHANGED <<cfgVars, platform, life, finalizer, scope, env, readonly, locked, handle>>

\* TempEnv.clone_local_env(), the ambient environment being `ambient`
CloneLocalEnv(ambient, ok) ==
    /\ life = "live"
    /\ \E r \in {PipInstallOutcome(disk, GetLocalRequirements(ambient), ok)} :
          /\ disk' = r.disk
          /\ call' = Called("clone_local_env", "", GetLocalRequirements(ambient),
                            IF r.result = "text" THEN "None" ELSE r.result,
                            IF ExeThere(disk) THEN <<"pip freeze", "pip install">>
                            ELSE <<"pip freeze">>, 0)
    /\ UNCHANGED <<cfgVars, platform, life, finalizer, scope, env, readonly, locked,
                   editable_installs, handle>>

\* What a call can raise.
Errors == {"CalledProcessError", "FileNotFoundError", "PermissionError", "IOError",
           "BlockError"}

\* `with temp_env.pip_install_context(path) as temp_pkg:` entered: the editable
\* install, and the handle the block is given.
ContextEnter(path, fault) ==
    /\ life = "live" /\ ~handle.open
    /\ \E r \in {EditableOutcome(disk, editable_installs, path, fault)} :
          /\ disk' = r.disk
          /\ editable_installs' = r.ei
          /\ handle' = IF r.result \in Errors THEN handle
                       ELSE [open |-> TRUE, path |-> path, script_name |-> ScriptName(path),
                             pkg_name |-> r.result, is_installed |-> r.result # "None"]
          /\ call' = Called("pip_install_context", "", {}, r.result, r.cmds, 0)
    /\ UNCHANGED <<cfgVars, platform, life, finalizer, scope, env, readonly, locked>>

\* The pip_install_context block is left, normally or because it raised: the
\* package is uninstalled, unless the install returned None.
ContextExit(raised) ==
    /\ life = "live" /\ handle.open
    /\ IF handle.pkg_name = "None"
       THEN /\ handle' = [handle EXCEPT !.open = FALSE]
            /\ call' = Called("pip_install_context.exit", handle.pkg_name, {},
                              IF raised THEN "BlockError" ELSE "None", <<>>, 0)
            /\ UNCHANGED <<disk, editable_installs>>
       ELSE \E r \in {UninstallOutcome(disk, editable_installs, handle.pkg_name)} :
               /\ disk' = r.disk
               /\ editable_installs' = r.ei
               /\ handle' = [handle EXCEPT !.open = FALSE,
                                           !.is_installed = (r.result # "None")]
               /\ call' = Called("pip_install_context.exit", handle.pkg_name, {},
                                 IF r.result # "None" THEN r.result
                                 ELSE IF raised THEN "BlockError" ELSE "None",
                                 IF ExeThere(disk) THEN <<"pip uninstall">> ELSE <<>>, 0)
    /\ UNCHANGED <<cfgVars, platform, life, finalizer, scope, env, readonly, locked>>

\* A plausible slip: the finalizer registered also when defer_atexit is given
\* (the `return` of line 157 left out).
CollectAlwaysRemoves ==
    /\ life \in {"live", "failed"} /\ scope # "in" /\ ~handle.open
    /\ life' = "collected"
    /\ \E r \in RmtreeOutcomes(disk, readonly, locked, env.name, "ignore") :
          /\ disk' = r.disk
          /\ Resist(r.disk)
    /\ call' = Called("finalize", "", {}, "None", <<>>, 0)
    /\ UNCHANGED <<cfgVars, platform, finalizer, scope, env, editable_installs, handle>>

\* The object is garbage collected: weakref.finalize, when it was registered,
\* runs shutil.rmtree(name, True); with defer_atexit nothing is tied to the object.
Collect ==
    /\ life \in {"live", "failed"} /\ scope # "in" /\ ~handle.open
    /\ life' = "collected"
    /\ \E r \in RmtreeOutcomes(disk, readonly, locked, env.name, "ignore") :
          /\ disk' = IF finalizer = "gc" THEN r.disk ELSE disk
          /\ Resist(disk')
    /\ call' = Called("finalize", "", {}, "None", <<>>, 0)
    /\ UNCHANGED <<cfgVars, platform, finalizer, scope, env, editable_installs, handle>>

\* The process exits: the atexit callback, or the finalizer if it has not run
\* yet, runs shutil.rmtree(name, True).
ProcessExit ==
    /\ life \in {"live", "failed", "collected"}
    /\ life' = "exited"
    /\ \E r \in RmtreeOutcomes(disk, readonly, locked, env.name, "ignore") :
          /\ disk' = IF finalizer = "atexit" \/ (finalizer = "gc" /\ life # "collected")
                     THEN r.disk ELSE disk
          /\ Resist(disk')
    /\ call' = Called("exit", "", {}, "None", <<>>, 0)
    /\ UNCHANGED <<cfgVars, platform, finalizer, scope, env, editable_installs, handle>>

ReqUniverse == {<<"requests", "1.0">>, <<"mypkg", "1.0">>}
Faults == {"none", "name", "probe", "install"}

EnvNext ==
    \/ \E defer_atexit \in BOOLEAN, created \in BOOLEAN : \E plat \in Platforms : Construct(defer_atexit, created, plat)
    \/ Enter
    \/ \E raised \in BOOLEAN : Exit(raised)
    \/ Cleanup
    \/ \E effect \in {"none", "readonly", "locked"} : RunPython(effect)
    \/ \E reqs \in SUBSET ReqUniverse, ok \in BOOLEAN : PipInstall(reqs, ok)
    \/ \E pkg_name \in PkgNames, probe \in {"normal", "failure"} : IsInstalled(pkg_name, probe)
    \/ \E path \in EditablePaths, fault \in Faults : PipInstallEditable(path, fault)
    \/ \E pkg_name \in PkgNames \ {"pip"} : UninstallEditable(pkg_name)
    \/ \E ambient \in Ambients, ok \in BOOLEAN : CloneLocalEnv(ambient, ok)
    \/ \E path \in EditablePaths, fault \in Faults : ContextEnter(path, fault)
    \/ \E raised \in BOOLEAN : ContextExit(raised)
    \/ Collect
    \/ ProcessExit

----------------------------------------------------------------------------
(* The specifications: a Config under every sequence of calls, and a       *)
(* TempEnv under every sequence of calls and events.                       *)

ConfigSpec == Init /\ [][ConfigNext]_vars

EnvSpec == Init /\ [][EnvNext]_vars

\* The same, in a process that exits in the end: the interpreter then runs the
\* atexit callbacks and the finalizers that are still alive.
EnvExitSpec == EnvSpec /\ WF_vars(ProcessExit)

----------------------------------------------------------------------------
(* Claims about Config.                                                    *)

\* The outcome of config.update({k: v}, ignore_set, overwrite) in this state.
UpdateOne(k, v, ignore_set, overwrite) ==
    UpdateOutcome(attr, already_set, << <<k, v>> >>, ignore_set, overwrite)

\* C1: in every state a sequence of calls reaches, and for every schema field k:
\* an update of k that was not set before assigns it (whatever the flags), and
\* the value read afterwards is the assigned one; an update of an already-set k
\* with ignore_set=False and overwrite=False raises the re-assignment
\* AttributeError and changes nothing; with ignore_set=False and overwrite=True
\* it returns and the new value is the one read.  Until then the value stays: no
\* update that does not name k changes it.  (ignore_set=True on an already-set
\* field is the subject of C11.)
C1_SetOnce ==
    \A k \in FieldKeys :
        /\ \A v \in ParamValues, ignore_set \in BOOLEAN, overwrite \in BOOLEAN :
              LET r == UpdateOne(k, v, ignore_set, overwrite)
              IN  /\ k \notin already_set =>
                        r.result = "None" /\ r.attr[k] = v /\ k \in r.set
                  /\ (k \in already_set /\ ~ignore_set /\ ~overwrite) =>
                        /\ r.result = NoReassignment
                        /\ r.attr = attr
                        /\ r.set = already_set
                  /\ (k \in already_set /\ ~ignore_set /\ overwrite) =>
                        r.result = "None" /\ r.attr[k] = v /\ k \in r.set
        /\ \A p \in ParamDicts, ignore_set \in BOOLEAN, overwrite \in BOOLEAN :
              k \notin KeysOf(p) =>
                 UpdateOutcome(attr, already_set, p, ignore_set, overwrite).attr[k] = attr[k]
        /\ k \notin already_set => attr[k] = DefaultValue(k)

\* Witness of C1: a second update of invert was refused and the first value stays.
C1_Witness ==
    /\ last.op = "update" /\ last.key = "invert" /\ last.result = NoReassignment
    /\ "invert" \in already_set /\ attr["invert"] = "True"

\* C2: no key outside the schema is ever assigned (the instance has exactly the
\* schema fields, the private stores and the methods stay what they were), and
\* in every reachable state an update whose params hold such a key raises an
\* AttributeError for every ignore_set and overwrite: "has no attribute" for a
\* name the object lacks, "does not support item assignment" for a private name
\* or a method.
C2_OnlySchemaAssignable ==
    /\ DOMAIN attr = SchemaFields
    /\ already_set \subseteq SchemaFields
    /\ \A p \in ParamDicts, ignore_set \in BOOLEAN, overwrite \in BOOLEAN :
          LET r == UpdateOutcome(attr, already_set, p, ignore_set, overwrite)
          IN  ~(KeysOf(p) \subseteq SchemaFields) =>
                 /\ r.result \in AttributeErrors
                 /\ DOMAIN r.attr = SchemaFields
                 /\ r.set \subseteq SchemaFields
                 /\ (p[r.at][1] \notin SchemaFields) =>
                        r.result = IF p[r.at][1] \in PrivateAttrs \cup ClassAttrs
                                   THEN NoAssignment ELSE NoAttribute
                 /\ \A i \in 1..(r.at - 1) : p[i][1] \in SchemaFields
    /\ (last.op = "update" /\ last.key \in OtherKeys) => last.result \in AttributeErrors

\* Witness of C2: update(_program_state=...) was refused on a config that has
\* fields set and state stored.
C2_Witness ==
    /\ last.op = "update" /\ last.key = "_program_state" /\ last.result = NoAssignment
    /\ already_set # {}
    /\ DOMAIN program_state # {}

\* C3: `key in config` is true exactly for the keys set and not popped since:
\* after config[k] = v the key is in the config, after a pop of k it is not, and
\* in every reachable state config[k] = v adds k with value v and touches no
\* other key, pop(k) of a present key returns its value and removes only k,
\* pop(k, default) of a missing key returns the default and leaves the store as
\* it was, and a pop right after config[k] = v returns v.
C3_AuxStore ==
    /\ last.op = "setitem" =>
          Contains(program_state, last.key) /\ last.result = "None"
    /\ (last.op = "pop" /\ last.key # "") => ~Contains(program_state, last.key)
    /\ DOMAIN program_state \subseteq AuxKeys
    /\ \A k \in AuxKeys :
          /\ \A v \in AuxValues :
                LET ps == DictSet(program_state, k, v)
                IN  /\ Contains(ps, k) /\ ps[k] = v
                    /\ \A j \in AuxKeys \ {k} :
                          /\ Contains(ps, j) <=> Contains(program_state, j)
                          /\ Contains(ps, j) => ps[j] = program_state[j]
                    /\ DictPop(ps, <<k>>).result = v
                    /\ DictPop(ps, <<k>>).dict = [j \in DOMAIN program_state \ {k} |->
                                                     program_state[j]]
          /\ Contains(program_state, k) =>
                \A args \in {<<k>>, <<k, PopDefault>>} :
                    LET r == DictPop(program_state, args)
                    IN  /\ r.result = program_state[k]
                        /\ ~Contains(r.dict, k)
                        /\ \A j \in AuxKeys \ {k} :
                              /\ Contains(r.dict, j) <=> Contains(program_state, j)
                              /\ Contains(r.dict, j) => r.dict[j] = program_state[j]
          /\ ~Contains(program_state, k) =>
                LET r == DictPop(program_state, <<k, PopDefault>>)
                IN  r.result = PopDefault /\ r.dict = program_state

\* Witness of C3: pop('key', 'nope') returned the default while another key is stored.
C3_Witness ==
    /\ last.op = "pop" /\ last.key = "key" /\ last.result = PopDefault
    /\ ~Contains(program_state, "key")
    /\ Contains(program_state, "invert")

\* C11: in every reachable state, update(ignore_set=True) of a field that an
\* earlier update set returns without raising and leaves the value and the
\* set-once marks as they were, whatever overwrite is; and in an update with
\* ignore_set=True of any params, the already-set keys are passed over and the
\* other keys are processed as if the already-set ones were not in params: the
\* call never raises the re-assignment error, and when it returns every key
\* that was not set before holds the value given and is marked, while every
\* key that was set before holds the value it had.
C11_IgnoreSetSkips ==
    /\ \A k \in FieldKeys \cap already_set :
          \A v \in ParamValues, overwrite \in BOOLEAN :
              LET r == UpdateOne(k, v, TRUE, overwrite)
              IN  r.result = "None" /\ r.attr = attr /\ r.set = already_set
    /\ \A p \in ParamDicts, overwrite \in BOOLEAN :
          LET r == UpdateOutcome(attr, already_set, p, TRUE, overwrite)
              rest == SelectSeq(p, LAMBDA item : item[1] \notin already_set)
              q == UpdateOutcome(attr, already_set, rest, TRUE, overwrite)
          IN  /\ r.result # NoReassignment
              /\ r.result = q.result /\ r.attr = q.attr /\ r.set = q.set
              /\ r.result = "None" =>
                    \A i \in DOMAIN p :
                        IF p[i][1] \in already_set
                        THEN r.attr[p[i][1]] = attr[p[i][1]]
                        ELSE r.attr[p[i][1]] = p[i][2] /\ p[i][1] \in r.set
    /\ last.op = "update" =>
          /\ last.skipped \cup last.assigned \subseteq already_set
          /\ last.skipped \cap last.assigned = {}

\* Witness of C11: an update returned after it skipped invert, which keeps the
\* value of the first update, and assigned root_ref.
C11_Witness ==
    /\ last.op = "update" /\ last.result = "None"
    /\ last.skipped = {"invert"} /\ last.assigned = {"root_ref"}
    /\ attr["invert"] = "True" /\ attr["root_ref"] = "True"

\* The names of the list test_config expects of sorted(config).
ExpectedNames ==
    {"banner_greatest_tag", "banner_main_ref", "banner_recent_tag", "chdir", "git_root",
     "greatest_tag", "grm_exclude", "install_versions", "invert", "local_conf", "no_colors",
     "no_local_conf", "overflow", "priority", "push_remote", "recent_tag", "root_ref",
     "show_banner", "sort", "verbose", "whitelist_branches", "whitelist_tags"}

\* C12 as stated: iterating a Config yields exactly one (name, current value)
\* pair per schema field and nothing else, and after the update of the test
\* (here its keys invert=True and root_ref='master') the enumeration has the 22
\* names the test expects, ('install_versions', False) among them.
C12_AsStated ==
    /\ {i[1] : i \in Iter(attr)} = SchemaFields
    /\ Cardinality(Iter(attr)) = Cardinality(SchemaFields)
    /\ \A i \in Iter(attr) : i[2] = attr[i[1]]
    /\ \A n \in PrivateAttrs \cup ClassAttrs : n \notin {i[1] : i \in Iter(attr)}
    /\ (/\ last.op = "update" /\ last.result = "None"
        /\ last.assigned = {"invert", "root_ref"}
        /\ attr["invert"] = "True" /\ attr["root_ref"] = "'master'") =>
          /\ {i[1] : i \in Iter(attr)} = ExpectedNames
          /\ Cardinality(Iter(attr)) = 22
          /\ <<"install_versions", "False">> \in Iter(attr)

\* What a step of C17 must leave alone.
C17_Step ==
    /\ last'.op = "update" => program_state' = program_state
    /\ last'.op \in {"setitem", "pop"} => attr' = attr /\ already_set' = already_set

\* C17: no update, returning or raising, changes the auxiliary store, and no
\* config[key] = value and no config.pop(...) changes the value of a schema
\* field or the set of already-set names, also for the auxiliary key 'invert',
\* which is the name of a schema field.
C17_Independent == [][C17_Step]_vars

\* Witness of C17: config['invert'] = 'value' was stored while the field invert
\* holds the value an update gave it and is marked as set.
C17_Witness ==
    /\ last.op = "setitem" /\ last.key = "invert"
    /\ Contains(program_state, "invert") /\ program_state["invert"] = "value"
    /\ attr["invert"] = "True" /\ "invert" \in already_set

\* C18: in every reachable state and for every params and flags, when update
\* raises an AttributeError at some key, the field of that key (if the object
\* has it) and its mark are as before the call; every key before it was either
\* skipped (ignore_set, already set: value as before) or assigned (value given,
\* marked); every key after it has the value and the mark it had before the
\* call.  And after an update that raised, the keys it had assigned are marked.
C18_KeyByKey ==
    /\ \A p \in ParamDicts, ignore_set \in BOOLEAN, overwrite \in BOOLEAN :
          LET r == UpdateOutcome(attr, already_set, p, ignore_set, overwrite)
          IN  r.result \in AttributeErrors =>
                 /\ r.at \in DOMAIN p
                 /\ DOMAIN r.attr = DOMAIN attr
                 /\ p[r.at][1] \in DOMAIN attr => r.attr[p[r.at][1]] = attr[p[r.at][1]]
                 /\ p[r.at][1] \in r.set <=> p[r.at][1] \in already_set
                 /\ \A i \in 1..(r.at - 1) :
                       IF ignore_set /\ p[i][1] \in already_set
                       THEN r.attr[p[i][1]] = attr[p[i][1]] /\ p[i][1] \in r.set
                       ELSE r.attr[p[i][1]] = p[i][2] /\ p[i][1] \in r.set
                 /\ \A i \in (r.at + 1)..Len(p) :
                       /\ p[i][1] \in DOMAIN attr => r.attr[p[i][1]] = attr[p[i][1]]
                       /\ p[i][1] \in r.set <=> p[i][1] \in already_set
    /\ (last.op = "update" /\ last.result \in AttributeErrors) =>
          /\ last.assigned \subseteq already_set
          /\ last.key \notin last.assigned \cup last.skipped
          /\ last.key \in SchemaFields =>
                last.result = NoReassignment /\ last.key \in already_set

\* Witness of C18: update raised on 'unknown' after it had assigned invert,
\* which keeps the new value and the mark.
C18_Witness ==
    /\ last.op = "update" /\ last.result = NoAttribute /\ last.key = "unknown"
    /\ last.assigned = {"invert"}
    /\ attr["invert"] = "True" /\ "invert" \in already_set
    /\ "root_ref" \notin already_set

\* The state part of C19: the already-set names are schema fields, and every
\* update, whatever its params and flags and whether it returns or raises,
\* leaves a set of schema fields that contains the names set before.
C19_State ==
    /\ already_set \subseteq SchemaFields
    /\ \A p \in ParamDicts, ignore_set \in BOOLEAN, overwrite \in BOOLEAN :
          LET r == UpdateOutcome(attr, already_set, p, ignore_set, overwrite)
          IN  already_set \subseteq r.set /\ r.set \subseteq SchemaFields

\* C19: _already_set is a subset of the schema field names in every reachable
\* state, and no call (update with any flags, config[key] = value, pop) takes a
\* name out of it.
C19_OnlyGrows == []C19_State /\ [][already_set \subseteq already_set']_vars

\* Witness of C19: an update with overwrite assigned invert again, and both
\* fields set earlier are still marked, with a key in the auxiliary store.
C19_Witness ==
    /\ last.op = "update" /\ last.result = "None"
    /\ last.assigned = {"invert"} /\ last.skipped = {}
    /\ already_set = {"invert", "root_ref"}
    /\ attr["invert"] = "'master'"
    /\ Contains(program_state, "invert")

----------------------------------------------------------------------------
(* Claims about TempDir and TempEnv.                                       *)

\* What is_installed(pkg_name) answers on the disk d when the probe runs normally.
Probe(d, pkg_name) == IsInstalledOutcome(d, pkg_name, "normal")

\* IOError and its subclasses (IOError is OSError).
IOErrors == {"IOError", "PermissionError", "FileNotFoundError"}

C5_InstallThenUninstall ==
    /\ life = "live" =>
          \A path \in {q \in EditablePaths : ScriptName(q) \in ProjectFiles} :
              LET r1 == EditableOutcome(disk, editable_installs, path, "none")
                  name == SetupName(ScriptName(path))
                  r2 == UninstallOutcome(r1.disk, r1.ei, name)
                  r3 == UninstallOutcome(r2.disk, r2.ei, name)
              IN  r1.result = name =>
                     /\ Probe(r1.disk, name) = "True"
                     /\ name \in DOMAIN r1.ei
                     /\ r2.result = "None"
                     /\ Probe(r2.disk, name) = "False"
                     /\ name \notin DOMAIN r2.ei
                     /\ r3.result = "None"
                     /\ r3.ei = r2.ei
                     /\ r3.disk = r2.disk
    /\ (call.op = "uninstall_editable" /\ call.result = "None") =>
          /\ Probe(disk, call.pkg) = "False"
          /\ call.pkg \notin DOMAIN editable_installs
    /\ (call.op = "uninstall_editable" /\ call.result # "None") =>
          call.result = "FileNotFoundError" /\ ~ExeThere(disk)

\* Witness of C5: uninstall_editable('mypkg') returned in an environment where
\* mypkg is not installed any more, and other packages are.
C5_Witness ==
    /\ call.op = "uninstall_editable" /\ call.pkg = "mypkg" /\ call.result = "None"
    /\ ExeThere(disk)
    /\ Probe(disk, "mypkg") = "False"
    /\ Probe(disk, "requests") = "True"
    /\ DOMAIN editable_installs = {}

\* C6 as stated: after the with block is left, cleanup() has been called once
\* and neither the root directory nor venv_path exists.
C6_AsStated ==
    call.op = "__exit__" =>
        /\ call.cleanups = 1
        /\ env.name \notin disk
        /\ env.venv_path \notin disk

\* C6, amended: when the with block is left, normally or because the block
\* raised, cleanup() is called exactly once; when that cleanup() returns, no
\* path under the root directory exists any more (neither name nor venv_path);
\* otherwise it raised an IOError, which is what leaves the with statement, and
\* the root directory is still there exactly when an entry could not be deleted.
C6_ExitCleansUp ==
    call.op = "__exit__" =>
        /\ call.cleanups = 1
        /\ scope = "out"
        /\ call.result \in {"None", "BlockError"} \cup IOErrors
        /\ call.result \in {"None", "BlockError"} =>
              /\ env.name \notin disk
              /\ env.venv_path \notin disk
              /\ \A p \in disk : ~IsPrefix(env.name, p)
        /\ call.result = "FileNotFoundError" => env.name \notin disk
        /\ call.result = "PermissionError" =>
              env.name \in disk /\ locked # {} /\ locked \subseteq disk
        /\ call.result # "IOError"

\* Witness of C6: the block raised, cleanup ran and the directory and the
\* environment under it are gone.
C6_Witness ==
    /\ call.op = "__exit__" /\ call.result = "BlockError" /\ call.cleanups = 1
    /\ env.name # <<>> /\ env.name \notin disk /\ env.venv_path \notin disk
    /\ DOMAIN editable_installs # {}

\* C7 as stated: in every state of a TempEnv, every name in editable_installs is
\* a package that is installed in the environment as an editable install.
C7_AsStated ==
    life = "live" =>
        \A n \in DOMAIN editable_installs : MetaEntry(n, "dev", "egg-link") \in disk

\* C8: get_local_requirements lists the ambient packages that are not editable
\* (and not pip itself) as name==version; clone_local_env runs one install with
\* that list.  In a new TempEnv none of the names of any ambient listing is
\* installed, and the install of the listing leaves every one of them installed,
\* at the version listed; whenever clone_local_env has returned, every name of
\* the list it installed is installed.
C8_CloneLocalEnv ==
    /\ \A ambient \in Ambients :
          LET reqs == GetLocalRequirements(ambient)
          IN  /\ \A p \in ambient : p.editable => <<p.name, p.version>> \notin reqs
              /\ \A p \in ambient :
                    (~p.editable /\ p.name # "pip") => <<p.name, p.version>> \in reqs
              /\ \A r \in reqs : \E p \in ambient : r = <<p.name, p.version>>
              /\ (call.op = "TempEnv" /\ call.result = "None") =>
                    LET after == PipInstallOutcome(disk, reqs, TRUE)
                    IN  /\ \A r \in reqs : Probe(disk, r[1]) = "False"
                        /\ reqs # {} =>
                              /\ after.result = "text"
                              /\ \A r \in reqs :
                                    /\ Probe(after.disk, r[1]) = "True"
                                    /\ MetaEntry(r[1], r[2], "dist-info") \in after.disk
    /\ (call.op = "clone_local_env" /\ call.result = "None") =>
          /\ call.cmds = <<"pip freeze", "pip install">>
          /\ \A r \in call.reqs :
                /\ Probe(disk, r[1]) = "True"
                /\ MetaEntry(r[1], r[2], "dist-info") \in disk
                   \/ MetaEntry(r[1], r[2], "egg-link") \in disk

\* Witness of C8: clone_local_env returned after installing two packages.
C8_Witness ==
    /\ call.op = "clone_local_env" /\ call.result = "None"
    /\ call.reqs = {<<"requests", "1.0">>, <<"mypkg", "1.0">>}
    /\ Probe(disk, "requests") = "True"
    /\ Probe(disk, "mypkg") = "True"

\* The state part of C9: is_installed answers true on a probe that exits zero
\* with output, false (raising nothing) on one that exits non-zero with no output, and lets the
\* CalledProcessError through on one that exits non-zero with output; what it
\* answers for a package is whether the package is in the environment.
C9_State ==
    /\ IsInstalledResult(0, "text") = "True"
    /\ IsInstalledResult(1, "") = "False"
    /\ IsInstalledResult(1, "text") = "CalledProcessError"
    /\ call.op = "is_installed" =>
          /\ call.result \in {"True", "False", "CalledProcessError", "FileNotFoundError"}
          /\ call.result = "True" => InstalledIn(disk, call.pkg)
          /\ call.result = "False" => ~InstalledIn(disk, call.pkg)
          /\ call.result = "FileNotFoundError" <=> ~ExeThere(disk)
    /\ life = "live" /\ ExeThere(disk) =>
          \A n \in PkgNames :
              /\ Probe(disk, n) = (IF InstalledIn(disk, n) THEN "True" ELSE "False")
              /\ IsInstalledOutcome(disk, n, "failure") = "CalledProcessError"
C9_Step ==
    (call'.op = "is_installed" /\ call' # call) =>
        /\ editable_installs' = editable_installs
        /\ disk' = disk
        /\ handle' = handle
\* C9: is_installed answers as the probe's exit code and output say (true,
\* false, or the CalledProcessError let through) in every state, and no call of
\* it changes editable_installs, the handle or what is installed.
C9_IsInstalled == []C9_State /\ [][C9_Step]_vars

\* Witness of C9: the probe failed with output and is_installed raised, in an
\* environment with an editable install.
C9_Witness ==
    /\ call.op = "is_installed" /\ call.result = "CalledProcessError"
    /\ call.pkg = "mypkg"
    /\ "mypkg" \in DOMAIN editable_installs

\* C10: pip_install_editable(path) for a path whose resolved setup.py (the path
\* itself when its basename is setup.py, path/setup.py otherwise) does not exist
\* returns None, runs no subprocess and leaves editable_installs and the
\* environment as they were, in every state and whatever the subprocesses would do.
C10_MissingScript ==
    /\ ScriptName(<<"work", "empty">>) = <<"work", "empty", "setup.py">>
    /\ ScriptName(<<"work", "empty", "setup.py">>) = <<"work", "empty", "setup.py">>
    /\ \A path \in EditablePaths, fault \in Faults :
          ScriptName(path) \notin ProjectFiles =>
              LET r == EditableOutcome(disk, editable_installs, path, fault)
              IN  /\ r.result = "None"
                  /\ r.cmds = <<>>
                  /\ r.ei = editable_installs
                  /\ r.disk = disk
    /\ (call.op = "pip_install_editable" /\ call.result = "None") => call.cmds = <<>>
    /\ (call.op = "pip_install_editable" /\ call.cmds = <<>>) => call.result = "None"

\* Witness of C10: pip_install_editable returned None without running anything,
\* in an environment that has an editable install.
C10_Witness ==
    /\ call.op = "pip_install_editable" /\ call.result = "None" /\ call.cmds = <<>>
    /\ ExeThere(disk)
    /\ "mypkg" \in DOMAIN editable_installs
    /\ Probe(disk, "mypkg") = "True"

\* p is a proper ancestor of q.
Under(p, q) == IsPrefix(p, q) /\ p # q

\* The state part of C13: for a created TempEnv the environment's paths are
\* those build_context derives from venv_path; env_exe, bin_path and the library
\* path are under venv_path and venv_path is under name; and the prefix, the
\* library path and the executable differ from those of the invoking process.
C13_State ==
    life = "live" =>
        /\ env.name = TempName
        /\ Under(env.name, env.venv_path)
        /\ Under(env.venv_path, env.context.bin_path)
        /\ Under(env.venv_path, env.context.env_exe)
        /\ Under(env.context.bin_path, env.context.env_exe)
        /\ Under(env.venv_path, LibPath(env.venv_path, platform))
        /\ env.context.env_dir = env.venv_path
        /\ env.context.env_exe # Executable
        /\ \A cur \in CurrentPrefixes :
              /\ env.venv_path # cur
              /\ ~IsPrefix(env.venv_path, cur)
              /\ LibPath(env.venv_path, platform) # LibPath(cur, platform)
              /\ env.context.env_exe # BuildContext(cur, platform).env_exe

\* The step part of C13: no call on a created TempEnv changes its paths.
C13_Step ==
    life = "live" => env' = env /\ platform' = platform

\* C13: in every state of a successfully created TempEnv, env_exe and bin_path
\* are under venv_path, venv_path is under the root directory name, the prefix
\* and the library path differ from the invoking process's, and no operation
\* (install, uninstall, clone, cleanup) changes any of these paths.
C13_Paths == []C13_State /\ [][C13_Step]_vars

\* Witness of C13: on win32, after an editable install and a clone of the
\* ambient environment, the paths are the ones the constructor derived.
C13_Witness ==
    /\ life = "live" /\ platform = "win32"
    /\ call.op = "clone_local_env" /\ call.result = "None"
    /\ "mypkg" \in DOMAIN editable_installs
    /\ env.context.env_exe = <<"tmp", "sphinxcontrib_versioning", "venv", "Scripts", "python.exe">>
    /\ env.context.env_exe \in disk

\* C14: in every state of a live environment, for every path whose setup.py
\* exists and whose name is_installed reports as installed, the subprocesses of
\* pip_install_editable(path) run in the order name, probe, uninstall, install:
\* the uninstall has completed when the editable install is issued.  When the
\* install succeeds the call returns the package name, the package is installed
\* exactly once (as the editable install) and the name is recorded with its
\* script; when the install fails the call raises, and the name is neither
\* recorded nor installed.  For a name that is not installed no uninstall runs,
\* and in no case is a name recorded by a call whose install did not succeed.
C14_Reinstall ==
    /\ (life = "live" /\ ExeThere(disk)) =>
          \A path \in {q \in EditablePaths : ScriptName(q) \in ProjectFiles},
             fault \in {"none", "install"} :
              LET name == SetupName(ScriptName(path))
                  r == EditableOutcome(disk, editable_installs, path, fault)
                  succeeds == fault = "none" /\ InstallDir(path) # <<>>
              IN  /\ Probe(disk, name) = "True" =>
                        r.cmds = <<"setup.py --name", "pip show", "pip uninstall",
                                   "pip install -e">>
                  /\ Probe(disk, name) = "False" =>
                        r.cmds = <<"setup.py --name", "pip show", "pip install -e">>
                  /\ succeeds =>
                        /\ r.result = name
                        /\ MetaEntries(name) \cap r.disk = {MetaEntry(name, "dev", "egg-link")}
                        /\ name \in DOMAIN r.ei /\ r.ei[name] = ScriptName(path)
                  /\ ~succeeds =>
                        /\ r.result = "CalledProcessError"
                        /\ name \notin DOMAIN r.ei
                        /\ ~InstalledIn(r.disk, name)
    /\ (call.op = "pip_install_editable" /\ call.result \in PkgNames) =>
          /\ Cardinality(MetaEntries(call.result) \cap disk) = 1
          /\ call.result \in DOMAIN editable_installs
          /\ call.cmds[Len(call.cmds)] = "pip install -e"
          /\ \A i \in DOMAIN call.cmds :
                call.cmds[i] = "pip uninstall" => i + 1 = Len(call.cmds)
    /\ (/\ call.op = "pip_install_editable" /\ call.result = "CalledProcessError"
        /\ call.cmds # <<>> /\ call.cmds[Len(call.cmds)] = "pip install -e") =>
          \A path \in EditablePaths : SetupName(ScriptName(path)) \notin DOMAIN editable_installs

\* Witness of C14: pip_install_editable returned mypkg after it uninstalled the
\* release of mypkg that pip_install had put there, and mypkg is installed once.
C14_Witness ==
    /\ call.op = "pip_install_editable" /\ call.result = "mypkg"
    /\ call.cmds = <<"setup.py --name", "pip show", "pip uninstall", "pip install -e">>
    /\ MetaEntries("mypkg") \cap disk = {MetaEntry("mypkg", "dev", "egg-link")}
    /\ "mypkg" \in DOMAIN editable_installs
    /\ Probe(disk, "requests") = "True"

\* C15: in every state of a TempDir, whatever is on disk, cleanup() either
\* returns with the directory path absent or raises an IOError (OSError): it
\* never returns while the path exists.  Entries that are only read-only are
\* deleted by the make-writable-and-unlink retry; an entry that still cannot
\* be deleted makes it raise with the path left; and a cleanup() of a
\* directory that is already gone raises too and changes nothing.
C15_CleanupOrRaise ==
    /\ life = "live" =>
          \A r \in CleanupOutcomes(disk, readonly, locked) :
              /\ r.raised \in {"None"} \cup IOErrors
              /\ r.raised = "None" => \A p \in r.disk : ~IsPrefix(env.name, p)
              /\ env.name \in r.disk => r.raised \in IOErrors
              /\ (env.name \in disk /\ locked = {}) => r.raised = "None"
              /\ env.name \notin disk => r.raised = "FileNotFoundError" /\ r.disk = disk
    /\ call.op = "cleanup" =>
          /\ call.result \in {"None"} \cup IOErrors
          /\ call.result = "None" => env.name \notin disk
          /\ env.name \in disk => call.result = "PermissionError" /\ locked # {}

\* Witness of C15: a second cleanup() raised on the directory that the first
\* one removed, read-only file included.
C15_Witness ==
    /\ call.op = "cleanup" /\ call.result = "FileNotFoundError"
    /\ env.name # <<>> /\ env.name \notin disk
    /\ disk = {} /\ scope = "out"

\* C16 as stated: the directory of an object constructed with defer_atexit=True
\* is there after a with block on it was left, and it is removed at process exit.
C16_AsStated ==
    finalizer = "atexit" =>
        /\ call.op \in {"TempEnv", "__exit__"} => env.name \in disk
        /\ call.op = "exit" => env.name \notin disk

\* The state part of C16: with defer_atexit=True the directory is there when
\* the constructor is left, and after process exit nothing is left of it but
\* entries that could not be deleted and the directories that hold them.
C16_State ==
    finalizer = "atexit" =>
        /\ call.op = "TempEnv" => env.name \in disk
        /\ call.op = "exit" =>
              \A p \in disk : \E q \in (readonly \cup locked) \cap disk : IsPrefix(p, q)

\* The step part of C16: with defer_atexit=True the object becoming unreachable
\* leaves the disk as it is, and the directory goes away in no step but a
\* cleanup(), the leaving of a with block, or the exit of the process.
C16_Step ==
    finalizer' = "atexit" =>
        /\ (call'.op = "finalize" /\ call' # call) => disk' = disk
        /\ (env.name \in disk /\ env.name \notin disk') =>
              call'.op \in {"cleanup", "__exit__", "exit"}
        /\ (life = "live" /\ call'.op = "__exit__" /\ scope = "in"
            /\ call'.result \in {"None", "BlockError"}) => env.name \notin disk'

\* C16, amended: with defer_atexit=True the removal is registered for process
\* exit and not tied to the object's lifetime (garbage collection removes
\* nothing); the directory exists from construction until cleanup() is called,
\* explicitly or by leaving a with block on the object, or until the process
\* exits, where it is removed but for entries that cannot be deleted.
C16_Deferred == []C16_State /\ [][C16_Step]_vars

\* Witness of C16: an object constructed with defer_atexit=True was collected
\* and the directory, with the environment in it, is still there.
C16_Witness ==
    /\ finalizer = "atexit" /\ life = "collected" /\ call.op = "finalize"
    /\ env.name \in disk /\ ExeThere(disk)
    /\ DOMAIN editable_installs # {}

\* The state part of C20: when the constructor has raised because virtualenv
\* failed, there is no TempEnv (nothing was installed or recorded, no with
\* block is open), the root directory exists and its removal is registered.
C20_State ==
    /\ life = "failed" =>
          /\ call.op = "TempEnv" /\ call.result = "CalledProcessError"
          /\ finalizer \in {"gc", "atexit"}
          /\ disk = {TempName}
          /\ DOMAIN editable_installs = {} /\ scope = "out" /\ ~handle.open
    /\ (call.op = "TempEnv" /\ call.result = "CalledProcessError") => life = "failed"

\* The step part of C20: after the failed construction no method runs (there
\* is no object to call): the only steps are the collection of the half-built
\* object and the exit of the process, and they remove the directory as
\* registered, at collection or, with defer_atexit, at exit.
C20_Step ==
    (life = "failed" /\ vars' # vars) =>
        /\ life' \in {"collected", "exited"}
        /\ (finalizer = "gc" \/ life' = "exited") => disk' = {}
        /\ (finalizer = "atexit" /\ life' = "collected") => disk' = disk

\* C20: when virtualenv fails while a TempEnv is constructed, the constructor
\* raises and no TempEnv is returned; the removal of the root directory it had
\* created is registered already (at garbage collection, or at process exit
\* with defer_atexit=True), and the directory is removed in the end.
C20_NoLeak ==
    /\ []C20_State
    /\ [][C20_Step]_vars
    /\ (life = "failed") ~> (TempName \notin disk)

\* Witness of C20: the construction with defer_atexit=True failed (the object
\* has a root directory and no environment), and the exit of the process has
\* removed the directory.
C20_Witness ==
    /\ life = "exited" /\ finalizer = "atexit"
    /\ env.name = TempName /\ env.context = NoEnv.context
    /\ TempName \notin disk /\ disk = {}

====
